---------------------------- MODULE Spec2Model ----------------------------
(***************************************************************************)
(* The menu catalogue service of backend/server.py: six request handlers   *)
(* over one MongoDB collection, db.menu_items.  Every `await` of a handler *)
(* is one atomic store call; between two awaits of one handler the store   *)
(* calls of other requests may take effect.                                *)
(*                                                                         *)
(* Values are the JSON texts of the source: strings stand for themselves,  *)
(* a price is its decimal text, a boolean is "true"/"false", None is Null. *)
(* A uuid4 is the number of the draw that produced it.                     *)
(***************************************************************************)
EXTENDS Naturals, FiniteSets, TLC

\* ------------------------------------------------------------------ bounds
\* Requests issued in one behaviour (so at most SeedSize * MaxRequests
\* identifiers are drawn).
MaxRequests == 3
\* Clients address the ids 0..MaxTarget; 0 is never generated.
MaxTarget == 1

\* Requests in flight at the same time.
Clients == {"c1", "c2"}

\* ------------------------------------------------------------------ values
Null == "null"

\* datetime.now(timezone.utc): the instants a handler may observe.
Times == {"dt1", "dt2"}

\* datetime.isoformat(): the ISO-8601 text of an instant.
isoformat(t) ==
    IF t = "dt1" THEN "2024-01-01T00:00:00+00:00" ELSE "2024-01-02T00:00:00+00:00"

IsoStrings == {isoformat(t) : t \in Times}

\* datetime.fromisoformat(): the instant an ISO-8601 text denotes.
fromisoformat(s) == CHOOSE t \in Times : isoformat(t) = s

\* The fields MenuItemUpdate declares; MenuItemCreate declares the same ones.
MutableFields ==
    {"name", "description", "price", "category", "tag", "image_url", "is_available"}

\* Fields of MenuItemCreate without a default.
RequiredFields == {"name", "description", "price", "category"}

\* Defaults of the declared optional fields of MenuItemCreate / MenuItem.
FieldDefault(k) == IF k = "is_available" THEN "true" ELSE Null

\* len(initial_items) of seed_menu.
SeedSize == 4

\* to_list(1000) of get_menu_items.
ListLimit == 1000

\* ------------------------------------------------------------- pydantic
\* MenuItemCreate(**body): a body is a function from the keys the client
\* sent to their values.  Required fields must be present and not null, a
\* bool must not be null; keys the model does not declare are ignored.
MenuItemCreateValid(body) ==
    /\ \A k \in RequiredFields : k \in DOMAIN body /\ body[k] # Null
    /\ "is_available" \in DOMAIN body => body["is_available"] # Null

\* MenuItemCreate(**body).model_dump(): every declared field, defaults filled.
MenuItemCreateDump(body) ==
    [k \in MutableFields |-> IF k \in DOMAIN body THEN body[k] ELSE FieldDefault(k)]

\* MenuItemUpdate(**body).model_dump(exclude_unset=True): the declared
\* fields the client sent, an explicit null included; other keys are dropped.
\* (Faulty variant: undeclared keys such as id and created_at are kept.)
MenuItemUpdateDumpRaw(body) == body

MenuItemUpdateDump(body) ==
    [k \in (DOMAIN body) \cap MutableFields |-> body[k]]

\* str(uuid.uuid4()) at the n-th draw: fresh, so the draw's own number.
\* (Faulty variant: every draw yields the same identifier.)
uuid4Repeat(n) == 1

uuid4(n) == n

\* MenuItem(**item_dict) of create_menu_item: id and created_at generated.
MenuItem(n, t, item_dict) ==
    [k \in MutableFields \cup {"id", "created_at"} |->
        IF k = "id" THEN uuid4(n)
        ELSE IF k = "created_at" THEN t
        ELSE item_dict[k]]

\* doc = menu_item.model_dump(); doc['created_at'] = ...isoformat(), as
\* stored: insert_one gives the document its _id.
Document(n, item) ==
    [k \in DOMAIN item \cup {"_id"} |->
        IF k = "_id" THEN n
        ELSE IF k = "created_at" THEN isoformat(item[k])
        ELSE item[k]]

\* ---------------------------------------------------------------- store
Matches(coll, id) == {d \in coll : d["id"] = id}

\* The first document in natural (insertion) order.
First(docs) == CHOOSE d \in docs : \A e \in docs : d["_id"] <= e["_id"]

NoItem == [k \in {} |-> Null]

\* find_one({"id": id}, {"_id": 0}): the first match without its _id, or
\* nothing (NoItem).
\* (Faulty variant: the filter is ignored.)
find_one_nofilter(coll, id) ==
    IF coll = {} THEN NoItem
    ELSE LET d == First(coll) IN [k \in DOMAIN d \ {"_id"} |-> d[k]]

find_one(coll, id) ==
    IF Matches(coll, id) = {} THEN NoItem
    ELSE LET d == First(Matches(coll, id)) IN [k \in DOMAIN d \ {"_id"} |-> d[k]]

\* update_one({"id": id}, {"$set": data}): sets the keys of data in the
\* first match and leaves every other key and document alone; no upsert.
Set(d, data) ==
    [k \in DOMAIN d \cup DOMAIN data |-> IF k \in DOMAIN data THEN data[k] ELSE d[k]]

\* (Faulty variant: upsert=True inserts a document when nothing matches.)
update_one_upsert(coll, id, data) ==
    IF Matches(coll, id) = {}
    THEN coll \cup {[k \in DOMAIN data \cup {"_id", "id"} |->
                       IF k = "_id" THEN 0
                       ELSE IF k = "id" THEN id
                       ELSE data[k]]}
    ELSE LET d == First(Matches(coll, id))
         IN  (coll \ {d}) \cup {Set(d, data)}

update_one(coll, id, data) ==
    IF Matches(coll, id) = {} THEN coll
    ELSE LET d == First(Matches(coll, id))
         IN  (coll \ {d}) \cup {Set(d, data)}

\* matched_count of update_one's result (the handler discards it).
matched_count(coll, id) == IF Matches(coll, id) = {} THEN 0 ELSE 1

\* delete_one({"id": id}): removes the first match, if any.
delete_one(coll, id) ==
    IF Matches(coll, id) = {} THEN coll
    ELSE coll \ {First(Matches(coll, id))}

\* delete_many({}): removes every document.
\* (Faulty variant: nothing is removed.)
delete_many_none(coll) == coll

delete_many(coll) == {}

\* if isinstance(item.get('created_at'), str): item['created_at'] =
\* datetime.fromisoformat(item['created_at'])
Normalise(item) ==
    IF "created_at" \in DOMAIN item /\ item["created_at"] \in IsoStrings
    THEN [item EXCEPT !["created_at"] = fromisoformat(item["created_at"])]
    ELSE item

\* initial_items of seed_menu, record i drawn as uuid n at instant t (the
\* four datetime.now() calls of one synchronous block read one instant).
SeedItem(i, n, t) ==
    [k \in MutableFields \cup {"_id", "id", "created_at"} |->
        CASE k = "_id" -> n
          [] k = "id" -> uuid4(n)
          [] k = "created_at" -> isoformat(t)
          [] k = "name" ->
               (CASE i = 0 -> "Original Beef Bulgogi" [] i = 1 -> "Chicken Wasabi"
                  [] i = 2 -> "Seoul Smash" [] OTHER -> "UFO Sucre")
          [] k = "description" ->
               (CASE i = 0 -> "Eminces de boeuf bulgogi" [] i = 1 -> "Poulet frit a la coreenne"
                  [] i = 2 -> "Double steak smashe" [] OTHER -> "Base Glace ou Creme mousseline")
          [] k = "price" ->
               (CASE i = 0 -> "13.90" [] i = 1 -> "12.90"
                  [] i = 2 -> "13.90" [] OTHER -> "3.50")
          [] k = "category" -> (IF i < 3 THEN "burger" ELSE "dessert")
          [] k = "tag" ->
               (CASE i = 0 -> "Signature" [] i = 1 -> "Hot"
                  [] i = 2 -> "Smash" [] OTHER -> "Sucre")
          [] k = "image_url" ->
               (CASE i = 0 -> "photo-5836779.jpeg" [] i = 1 -> "photo-4551304.jpeg"
                  [] i = 2 -> "photo-262897.jpeg" [] OTHER -> "photo-2313686.jpeg")
          [] OTHER -> "true"]

initial_items(n, t) == {SeedItem(i, n + i, t) : i \in 0 .. SeedSize - 1}

\* ------------------------------------------------------------ responses
NoResult == [status |-> 0, detail |-> "", item |-> NoItem]

\* raise HTTPException(status_code=404, detail="Item not found")
NotFound == [status |-> 404, detail |-> "Item not found", item |-> NoItem]

\* The request body failed MenuItemCreate's validation.
InvalidInput == [status |-> 422, detail |-> "validation error", item |-> NoItem]

\* None.get(...): AttributeError, not caught by the handler.
Unhandled == [status |-> 500, detail |-> "AttributeError", item |-> NoItem]

Ok(detail, item) == [status |-> 200, detail |-> detail, item |-> item]

\* delete_menu_item's answer for result.deleted_count.
\* (Faulty variant: the deleted_count test is missing.)
delete_response_always(deleted_count) == Ok("Item deleted successfully", NoItem)

delete_response(deleted_count) ==
    IF deleted_count = 0 THEN NotFound ELSE Ok("Item deleted successfully", NoItem)

\* `if update_data:` of update_menu_item.
\* (Faulty variant: update_one is called for an empty patch too.)
NeedsWriteAlways(update_data) == TRUE

NeedsWrite(update_data) == DOMAIN update_data # {}

\* ----------------------------------------------------------- the inputs
\* Request bodies of POST /api/menu: the required fields and an undeclared
\* key, and a body without a name.
CreateBodies ==
    { [k \in RequiredFields \cup {"id"} |->
         CASE k = "name" -> "Test Burger" [] k = "description" -> "d"
           [] k = "price" -> "9.5" [] k = "id" -> 2 [] OTHER -> "burger"],
      [k \in {"description", "price", "category"} |->
         CASE k = "description" -> "d" [] k = "price" -> "9.5" [] OTHER -> "side"] }

\* The values a patch gives a field.
NewValue(k) ==
    CASE k = "name" -> "Renamed" [] k = "description" -> "e" [] k = "price" -> "10.0"
      [] k = "category" -> "side" [] k = "tag" -> "Hot" [] k = "image_url" -> "u.jpeg"
      [] k = "is_available" -> "false" [] k = "id" -> 2 [] OTHER -> isoformat("dt2")

\* Request bodies of PUT /api/menu/{id} under Spec: empty, one field, an
\* explicit null, and one that also names id and created_at.
Patches ==
    { NoItem,
      [k \in {"price"} |-> NewValue(k)],
      [k \in {"name"} |-> Null],
      [k \in {"id", "created_at", "is_available"} |-> NewValue(k)] }

\* --------------------------------------------------------------- state
VARIABLES
    store,    \* db.menu_items: the set of stored documents
    drawn,    \* the number of uuid4 draws so far
    req,      \* per client: the handler it runs and the handler's locals
    issued,   \* requests issued so far
    acks,     \* per id: success acknowledgments of DELETE so far
    wiped     \* ids whose document a seed's delete_many removed

vars == <<store, drawn, req, issued, acks, wiped>>

TargetIds == 0 .. MaxTarget

Idle ==
    [op |-> "none", pc |-> "idle", id |-> 0, body |-> NoItem, data |-> NoItem,
     result |-> NoResult, calls |-> 0, quiet |-> TRUE, pre |-> {}, count |-> 0]

Init ==
    /\ store = {}
    /\ drawn = 0
    /\ req = [p \in Clients |-> Idle]
    /\ issued = 0
    /\ acks = [i \in TargetIds |-> 0]
    /\ wiped = {}

\* A client may send a request when its previous one has been answered.
CanIssue(p) == req[p].pc \in {"idle", "done"} /\ issued < MaxRequests

\* An id a client can name: one the server has handed out, or one that
\* never exists.
Known(id) == id \in TargetIds /\ id <= drawn

\* Client p's handler moves to r by a store call (an await): the call is
\* counted, and every other handler in flight stops being quiet, another
\* request's store call having taken effect since its own first one.
Call(p, r) ==
    [q \in Clients |->
        IF q = p THEN [r EXCEPT !.calls = @ + 1]
        ELSE IF req[q].pc \in {"idle", "done"} THEN req[q]
        ELSE [req[q] EXCEPT !.quiet = FALSE]]

Begin(op, id, body) == [Idle EXCEPT !.op = op, !.id = id, !.body = body]

\* --------------------------------------------------------------- actions
\* GET /api/menu
get_menu_items(p) ==
    /\ CanIssue(p)
    /\ req' = Call(p, [Begin("list", 0, NoItem) EXCEPT
                !.pc = "done",
                !.result = Ok("items", NoItem),
                !.count = IF Cardinality(store) < ListLimit
                            THEN Cardinality(store) ELSE ListLimit])
    /\ issued' = issued + 1
    /\ UNCHANGED <<store, drawn, acks, wiped>>

\* GET /api/menu/{item_id}
get_menu_item(p, item_id) ==
    /\ CanIssue(p)
    /\ Known(item_id)
    /\ LET item == find_one(store, item_id)
       IN  req' = Call(p, [Begin("get", item_id, NoItem) EXCEPT
                     !.pc = "done",
                     !.result = IF item = NoItem THEN NotFound
                                ELSE Ok("item", Normalise(item))])
    /\ issued' = issued + 1
    /\ UNCHANGED <<store, drawn, acks, wiped>>

\* POST /api/menu with a body that fails validation: no store access.
create_menu_item_invalid(p, body) ==
    /\ CanIssue(p)
    /\ ~MenuItemCreateValid(body)
    /\ req' = [req EXCEPT ![p] = [Begin("create", 0, body) EXCEPT
                 !.pc = "done", !.result = InvalidInput]]
    /\ issued' = issued + 1
    /\ UNCHANGED <<store, drawn, acks, wiped>>

\* POST /api/menu
create_menu_item(p, body, t) ==
    /\ CanIssue(p)
    /\ MenuItemCreateValid(body)
    /\ LET menu_item == MenuItem(drawn + 1, t, MenuItemCreateDump(body))
       IN  /\ store' = store \cup {Document(drawn + 1, menu_item)}
           /\ req' = Call(p, [Begin("create", menu_item["id"], body) EXCEPT
                        !.pc = "done", !.result = Ok("item", menu_item)])
    /\ drawn' = drawn + 1
    /\ issued' = issued + 1
    /\ UNCHANGED <<acks, wiped>>

\* PUT /api/menu/{item_id}: the existence check (first find_one).
update_find(p, item_id, body) ==
    /\ CanIssue(p)
    /\ Known(item_id)
    /\ LET existing_item == find_one(store, item_id)
           update_data == MenuItemUpdateDump(body)
       IN  req' = Call(p, [Begin("update", item_id, body) EXCEPT
                     !.data = update_data,
                     !.pc = IF existing_item = NoItem THEN "done"
                            ELSE IF NeedsWrite(update_data) THEN "write"
                            ELSE "reread",
                     !.result = IF existing_item = NoItem THEN NotFound ELSE NoResult])
    /\ issued' = issued + 1
    /\ UNCHANGED <<store, drawn, acks, wiped>>

\* PUT /api/menu/{item_id}: update_one with $set.
update_write(p) ==
    /\ req[p].pc = "write"
    /\ store' = update_one(store, req[p].id, req[p].data)
    /\ req' = Call(p, [req[p] EXCEPT
                 !.pc = "reread", !.count = matched_count(store, req[p].id)])
    /\ UNCHANGED <<drawn, issued, acks, wiped>>

\* PUT /api/menu/{item_id}: the final find_one and the response.
update_reread(p) ==
    /\ req[p].pc = "reread"
    /\ LET updated_item == find_one(store, req[p].id)
       IN  req' = Call(p, [req[p] EXCEPT
                     !.pc = "done",
                     !.result = IF updated_item = NoItem THEN Unhandled
                                ELSE Ok("item", Normalise(updated_item))])
    /\ UNCHANGED <<store, drawn, issued, acks, wiped>>

\* DELETE /api/menu/{item_id}
delete_menu_item(p, item_id) ==
    /\ CanIssue(p)
    /\ Known(item_id)
    /\ LET after == delete_one(store, item_id)
           deleted_count == Cardinality(store) - Cardinality(after)
           result == delete_response(deleted_count)
       IN  /\ store' = after
           /\ req' = Call(p, [Begin("delete", item_id, NoItem) EXCEPT
                        !.pc = "done", !.result = result, !.count = deleted_count])
           /\ acks' = IF result.status = 200
                      THEN [acks EXCEPT ![item_id] = @ + 1] ELSE acks
    /\ issued' = issued + 1
    /\ UNCHANGED <<drawn, wiped>>

\* POST /api/menu/seed: delete_many({}).
seed_delete(p) ==
    /\ CanIssue(p)
    /\ store' = delete_many(store)
    /\ req' = Call(p, [Begin("seed", 0, NoItem) EXCEPT
                 !.pc = "insert", !.pre = store,
                 !.count = Cardinality(store) - Cardinality(delete_many(store))])
    /\ wiped' = wiped \cup {d["id"] : d \in store \ store'}
    /\ issued' = issued + 1
    /\ UNCHANGED <<drawn, acks>>

\* POST /api/menu/seed: insert_many(initial_items) and the response.
seed_insert(p, t) ==
    /\ req[p].pc = "insert"
    /\ store' = store \cup initial_items(drawn + 1, t)
    /\ drawn' = drawn + SeedSize
    /\ req' = Call(p, [req[p] EXCEPT
                 !.pc = "done", !.pre = {},
                 !.result = Ok("Seeded 4 menu items successfully", NoItem)])
    /\ UNCHANGED <<issued, acks, wiped>>

Next ==
    \E p \in Clients :
        \/ get_menu_items(p)
        \/ \E id \in TargetIds : get_menu_item(p, id)
        \/ \E body \in CreateBodies : create_menu_item_invalid(p, body)
        \/ \E body \in CreateBodies, t \in Times : create_menu_item(p, body, t)
        \/ \E id \in TargetIds, body \in Patches : update_find(p, id, body)
        \/ update_write(p)
        \/ update_reread(p)
        \/ \E id \in TargetIds : delete_menu_item(p, id)
        \/ seed_delete(p)
        \/ \E t \in Times : seed_insert(p, t)

Spec == Init /\ [][Next]_vars

\* ------------------------------------------------- the partial update alone
\* Updates issued in one behaviour of SpecPatch.
MaxPatchRequests == 1

\* The ids of the items SpecPatch creates before and between its updates.
PatchItems == {1, 2}

\* Request bodies of PUT /api/menu/{id} under SpecPatch: every subset of the
\* mutable fields, and the bodies of Patches.
AllPatches ==
    {[k \in S |-> NewValue(k)] : S \in SUBSET MutableFields} \cup Patches

\* One client creating items and patching them, one request after the
\* other; issued - drawn is the number of updates it has sent.
NextPatch ==
    \E p \in {"c1"} :
        \/ /\ drawn + 1 \in PatchItems
           /\ \E body \in CreateBodies : create_menu_item(p, body, "dt1")
        \/ /\ issued - drawn < MaxPatchRequests
           /\ \E id \in TargetIds, body \in AllPatches : update_find(p, id, body)
        \/ update_write(p)
        \/ update_reread(p)

SpecPatch == Init /\ [][NextPatch]_vars

\* ----------------------------------------------------------------- claims
Present(coll, id) == \E d \in coll : d["id"] = id

Done(p, op) == req[p].op = op /\ req[p].pc = "done"

\* The response body `item` shows the stored document d: every field but
\* _id, created_at as the instant the stored ISO text denotes.
Shows(item, d) ==
    /\ DOMAIN item = DOMAIN d \ {"_id"}
    /\ \A k \in DOMAIN item :
          IF k = "created_at" THEN isoformat(item[k]) = d[k] ELSE item[k] = d[k]

\* C1: get-by-id, update (any patch) and delete of an id that no stored
\* document carries end with 404 "Item not found" in their first store call
\* and leave the collection exactly as it was.  (req'[p] holds the id and
\* the body the handler was called with.)
C1_AbsentIdNotFound ==
    [][\A p \in Clients :
          (/\ ~Present(store, req'[p].id)
           /\ \/ get_menu_item(p, req'[p].id)
              \/ delete_menu_item(p, req'[p].id)
              \/ update_find(p, req'[p].id, req'[p].body))
          => /\ store' = store
             /\ req'[p].pc = "done"
             /\ req'[p].result.status = 404
             /\ req'[p].result.detail = "Item not found"]_vars

\* An update with a non-empty patch was answered NotFound while the
\* collection holds other documents.
C1_Witness ==
    \E p \in Clients :
        /\ Done(p, "update")
        /\ req[p].result = NotFound
        /\ DOMAIN req[p].data # {}
        /\ store # {}
        /\ ~Present(store, req[p].id)

\* The store after update_one differs from the store before only in the
\* document with the id, and there only in the mutable fields the body names.
PatchFrame(before, after, id, body) ==
    /\ Cardinality(after) = Cardinality(before)
    /\ \A d \in before :
          IF d["id"] = id
          THEN \E e \in after :
                  /\ e["_id"] = d["_id"]
                  /\ DOMAIN e = DOMAIN d
                  /\ \A k \in DOMAIN d :
                        e[k] = IF k \in DOMAIN body \cap MutableFields
                               THEN body[k] ELSE d[k]
          ELSE d \in after

\* C2: an update of an existing item with the subset S of the mutable
\* fields sets exactly the fields of S in that one document (id, created_at
\* and every field outside S keep their value, every other document is
\* unchanged); with S empty no write happens at all, and the handler returns
\* the record as stored.
C2_PartialUpdateFrame ==
    [][\A p \in Clients :
          /\ update_write(p) =>
                /\ DOMAIN req[p].body \cap MutableFields # {}
                /\ PatchFrame(store, store', req[p].id, req[p].body)
          /\ update_find(p, req'[p].id, req'[p].body) =>
                /\ store' = store
                /\ (Present(store, req'[p].id)
                      /\ DOMAIN req'[p].body \cap MutableFields = {})
                   => req'[p].pc = "reread"
          /\ update_reread(p) =>
                /\ store' = store
                /\ \A d \in store :
                      d["id"] = req[p].id =>
                         /\ req'[p].result.status = 200
                         /\ Shows(req'[p].result.item, d)]_vars

\* A patch naming id, created_at and is_available was applied to one of two
\* stored documents.
C2_Witness ==
    \E p \in Clients :
        /\ Done(p, "update")
        /\ req[p].result.status = 200
        /\ {"id", "created_at", "is_available"} \subseteq DOMAIN req[p].body
        /\ Cardinality(store) = 2
        /\ \E d \in store : d["id"] = req[p].id /\ d["is_available"] = "false"

\* C3: a seed during which no other request's store call took effect, on a
\* collection of any size, leaves exactly the SeedSize seed records; none
\* is an earlier record, and each carries an id generated by this call.
C3_SeedReplaces ==
    [][\A p \in Clients, t \in Times :
          (seed_insert(p, t) /\ req[p].quiet)
          => /\ Cardinality(store') = SeedSize
             /\ store' \cap req[p].pre = {}
             /\ \A d \in store' :
                   /\ d["id"] > drawn
                   /\ ~Present(req[p].pre, d["id"])
                   /\ \A e \in store' : e["id"] = d["id"] => e = d]_vars

\* A seed ran alone on a non-empty collection and has answered.
C3_Witness ==
    \E p \in Clients :
        /\ Done(p, "seed")
        /\ req[p].quiet
        /\ req[p].count > 0
        /\ Cardinality(store) = SeedSize

\* C4: no two stored documents share an id.
C4_UniqueIds ==
    \A d \in store, e \in store : d["id"] = e["id"] => d = e

\* Seed records and a created item are stored together.
C4_Witness ==
    /\ Cardinality(store) > SeedSize
    /\ \E p \in Clients : Done(p, "create") /\ Present(store, req[p].id)

\* C5: of the delete requests for the id of an item that was created (and
\* that no seed's delete_many removed), exactly one is acknowledged and
\* removes the document, every other one is answered NotFound; a delete
\* removes at most one document.
C5_DeleteOnce ==
    /\ \A i \in TargetIds : acks[i] <= 1
    /\ \A p \in Clients :
          Done(p, "delete") =>
             /\ \/ req[p].result = NotFound /\ req[p].count = 0
                \/ /\ req[p].result.status = 200
                   /\ req[p].result.detail = "Item deleted successfully"
                   /\ req[p].count = 1
             /\ (req[p].id >= 1 /\ req[p].id \notin wiped) => acks[req[p].id] = 1

\* Two deletes of one created id have been answered: one acknowledged, the
\* other NotFound.
C5_Witness ==
    \E p \in Clients, q \in Clients :
        /\ Done(p, "delete") /\ Done(q, "delete")
        /\ req[p].id = req[q].id /\ req[p].id >= 1
        /\ req[p].result.status = 200
        /\ req[q].result = NotFound

\* C6 as stated: every handler performs at most one store call.
C6_OneStoreCall == \A p \in Clients : req[p].calls <= 1

\* C6, amended: list, get, create and delete perform one store call (create
\* none when validation fails); update performs one when the id is absent,
\* otherwise two with an empty patch and three with a non-empty one; seed
\* performs two.
C6_StoreCalls ==
    \A p \in Clients :
        /\ req[p].calls <= 3
        /\ req[p].pc = "done" =>
              req[p].calls =
                 CASE req[p].op \in {"list", "get", "delete"} -> 1
                   [] req[p].op = "create" ->
                        (IF req[p].result.status = 422 THEN 0 ELSE 1)
                   [] req[p].op = "update" ->
                        (IF req[p].result.status = 404 THEN 1
                         ELSE IF DOMAIN req[p].body \cap MutableFields = {} THEN 2
                         ELSE 3)
                   [] OTHER -> 2

\* An update made three store calls, and another request's store call took
\* effect between them.
C6_Witness ==
    \E p \in Clients : Done(p, "update") /\ req[p].calls = 3 /\ ~req[p].quiet

\* C7 as stated: every stored item has a non-empty name and non-null
\* description, price and category.
C7_RequiredFieldsSet ==
    \A d \in store :
        /\ d["name"] \notin {Null, ""}
        /\ \A k \in {"description", "price", "category"} : d[k] # Null

\* C8 as stated: an update ends with NotFound or with the record stored
\* under its id.
C8_UpdateOutcome ==
    \A p \in Clients :
        Done(p, "update") =>
           \/ req[p].result = NotFound
           \/ /\ req[p].result.status = 200
              /\ "id" \in DOMAIN req[p].result.item
              /\ req[p].result.item["id"] = req[p].id

\* C9 as stated: once every client's seed request has returned (the last
\* request of each is a seed), the collection holds exactly SeedSize records.
C9_SeedsLeaveSeedSize ==
    (\A p \in Clients : Done(p, "seed")) => Cardinality(store) = SeedSize

\* C10: an id whose delete was acknowledged is carried by no stored document
\* in any later state.
C10_DeletedStaysDeleted ==
    \A i \in TargetIds : acks[i] > 0 => ~Present(store, i)

\* An update passed its existence check, the id's delete was acknowledged,
\* and the update's write then matched nothing.
C10_Witness ==
    \E p \in Clients :
        /\ req[p].op = "update"
        /\ req[p].pc \in {"reread", "done"}
        /\ DOMAIN req[p].data # {}
        /\ req[p].calls >= 2
        /\ req[p].count = 0
        /\ acks[req[p].id] > 0

=============================================================================
